---- MODULE Spec2Model ----
(***************************************************************************)
(* Model of the file synchronisation action: run() of the action's entry   *)
(* file (src/unnamed/part_000) and the API helpers of src/lib/api-calls.js. *)
(* One run selects files, obtains the repositories of the owner and, for   *)
(* every repository that is not ignored, diffs the files against the       *)
(* default branch, creates the sync branch, commits and opens a PR.        *)
(*                                                                         *)
(* The helpers of ./utils (getListOfFilesToReplicate, getListOfReposToIgnore,*)
(* getBranchName, encodeAdditions, encodeDeletions) are not part of src/;  *)
(* they are modelled from the specification.                               *)
(***************************************************************************)
EXTENDS Integers, Sequences, FiniteSets, TLC

(***************************************************************************)
(* Bounds of the model.                                                    *)
(***************************************************************************)
\* Number of times the workflow is executed with the same trigger.
MaxRuns == 2
\* Highest head oid of a sync branch that somebody else still pushes onto.
MaxHeadOid == 2

(***************************************************************************)
(* Values.                                                                 *)
(***************************************************************************)
\* A JavaScript undefined (a variable declared with let and never assigned,
\* the result of a function that ends without a return); UndefinedList is
\* the same value where the program expects a list.
Undefined == "undefined"
UndefinedList == <<Undefined>>
\* A remote file that does not exist (getContent answers 404).
Missing == "404"
\* A remote branch that does not exist.
NoRef == -1

\* Repository-relative paths of the hub repository, in listing order.
PathOrder == <<"f1", "f2">>
Paths == {PathOrder[i] : i \in 1..Len(PathOrder)}

\* File contents.  "false" is an ordinary file whose text is the word false.
Contents == {"x", "false"}

\* The files of the checkout of the hub repository.
LocalFiles == [p \in Paths |-> IF p = "f1" THEN "x" ELSE "false"]

\* What a spoke repository can hold on its default branch: the same files,
\* an older f1, f1 only, or none of the files.
RemoteLayouts ==
  {LocalFiles,
   [LocalFiles EXCEPT !["f1"] = "false"],
   [LocalFiles EXCEPT !["f2"] = Missing],
   [p \in Paths |-> Missing]}

\* Glob patterns an input field can hold; "" is a field left empty.
Globs == {"", "f1"}

\* The repositories of the owner, in the order the listing returns them.
\* "hub" is the repository the workflow runs in (GITHUB_REPOSITORY).
OwnerRepos == <<"hub", "s1", "s2">>
RepoNames == {OwnerRepos[i] : i \in 1..Len(OwnerRepos)}
Hub == "hub"
Spokes == RepoNames \ {Hub}

\* Attempts of the commit step (api-calls.js:225) and of the PR step
\* (api-calls.js:129).
CommitTries == 10
PrRetries == 5

\* Milliseconds slept after a null response of the commit mutation
\* (api-calls.js:261) and before every attempt of the PR mutation
\* (api-calls.js:136).
CommitDelay == 1000
PrDelay == 5000

\* The destination input (part_000:36).
destination == ""

\* Object id of the head of every default branch (it never changes during
\* the runs: all commits of the action go to the sync branch).
DefaultHeadOid == 0

VARIABLES
  \* ---- inputs of the workflow (identical for every run of the trigger)
  triggerEventName,     \* process.env.GITHUB_EVENT_NAME
  repoNameManual,       \* eventPayload.inputs.repo_name ("" when absent)
  patternsToIgnore,     \* core.getInput('patterns_to_ignore')
  patternsToInclude,    \* core.getInput('patterns_to_include')
  patternsToRemove,     \* core.getInput('patterns_to_remove')
  changedPaths,         \* files of the triggering commit / of the checkout
  localFile,            \* contents of the files in the checkout
  \* ---- remote state (the hosting platform)
  remoteFile,           \* remoteFile[r][p]: content on the default branch
  syncRef,              \* syncRef[r]: head oid of the sync branch, or NoRef
  syncCommits,          \* syncCommits[r]: the commits made on the sync branch
  \* ---- state of run()
  run,                  \* which execution of the workflow this is
  pc,                   \* position in run()
  status,               \* "running", "ok" or "failed" (core.setFailed)
  failReason,           \* which setFailed call ended the run
  filesToReplicate,     \* part_000:65
  filesToRemove,        \* part_000:66
  reposList,            \* part_000:82
  probe,                \* the answers to the requests of getReposList
  ignoredRepositories,  \* part_000:92
  idx,                  \* position of the for loop of part_000:102
  fileChanges,          \* part_000:112
  wasBranchThereAlready,\* part_000:144
  headOid,              \* api-calls.js:159 and :231, last head oid read
  tries,                \* api-calls.js:225
  retries,              \* api-calls.js:129
  count,                \* api-calls.js:130
  slept,                \* milliseconds slept in the step that is running
  commitUrl,            \* part_000:154
  pullRequestUrl,       \* part_000:162
  \* ---- what the run did, as seen from outside
  calls,                \* kinds of API requests sent in this run
  trace,                \* what was done for the repository worked on last
  summary               \* summary[r]: the line that closed repository r

inputs == <<triggerEventName, repoNameManual, patternsToIgnore,
            patternsToInclude, patternsToRemove, changedPaths, localFile>>
remote == <<remoteFile, syncRef, syncCommits>>
files  == <<filesToReplicate, filesToRemove>>
repos  == <<reposList, probe, ignoredRepositories>>
perRepo == <<fileChanges, wasBranchThereAlready, headOid, tries, retries,
             count, slept, commitUrl, pullRequestUrl>>
vars == <<inputs, remote, run, pc, status, failReason, files, repos, idx,
          perRepo, calls, trace, summary>>

(***************************************************************************)
(* Pure helpers.                                                           *)
(***************************************************************************)
\* A glob matches a path ("*" matches every path, "" is no pattern).
Matches(glob, path) == glob = "*" \/ glob = path

\* The paths of a set as a list, in listing order.
ToList(S) == SelectSeq(PathOrder, LAMBDA p : p \in S)

\* select(changedPaths, includeGlobs, excludeGlobs, removeGlobs) of the
\* Pattern Matcher.
Select(changed, include, exclude, remove) ==
  LET toRemove == {p \in changed : remove # "" /\ Matches(remove, p)}
      toReplicate == {p \in changed \ toRemove :
                         /\ (include # "" => Matches(include, p))
                         /\ ~(exclude # "" /\ Matches(exclude, p))}
  IN  [filesForReplication |-> ToList(toReplicate),
       filesForRemoval |-> ToList(toRemove)]

\* getListOfFilesToReplicate as run() calls it: the remove patterns are not
\* among its arguments.
getListOfFilesToReplicate(changed, ignore, include) ==
  Select(changed, include, ignore, "")

\* String(value) of JavaScript: a Buffer gives its text, the response object
\* of getContent gives "[object Object]", the boolean false gives "false".
BufferToString(content) == content
JsFalse == [type |-> "boolean"]
ResponseToString(response) ==
  IF response = JsFalse THEN "false" ELSE "[object Object]"

\* getFile (api-calls.js:189-204): the response object of getContent, or
\* the boolean false on a 404.
getFile(r, path) ==
  IF path \in DOMAIN remoteFile[r] /\ remoteFile[r][path] # Missing
  THEN [type |-> "object", data |-> remoteFile[r][path]]
  ELSE JsFalse

\* fileExists (api-calls.js:206-209): getFile(...) !== false.
fileExists(r, path) == getFile(r, path) # JsFalse

\* What was done for one repository: diff, branch, commit and pr are the
\* results of the four steps, branchReply the platform's reply to createRef,
\* prReport the level of the line that reported an error thrown by the PR
\* step, expected the head oid given to the last commit mutation,
\* commitReply and prReply what the platform answered to the last pass of
\* commitFiles and of createPr.
NewTrace(r) == [repo |-> r, diff |-> "none", branchReply |-> "none",
                branch |-> "none", commit |-> "none", pr |-> "none",
                prReport |-> "none", expected |-> NoRef,
                commitReply |-> "none", prReply |-> "none"]
NoTrace == NewTrace("")
\* No request of getReposList has been answered.
NoProbe == [org |-> "none", user |-> "none", list |-> "none"]
NoChanges == [additions |-> <<>>, deletions |-> <<>>]

\* A sync branch that an earlier run for the same trigger has left: its
\* head is the commit of that run, on top of the default branch.
PriorCommit == [additions |-> << [path |-> <<"f1">>, destination |-> ""] >>,
                deletions |-> <<>>]
PriorHeadOid == DefaultHeadOid + 1

TypeOK ==
  /\ pc \in {"start", "select", "repos", "loop", "branch", "commit", "pr",
             "prcall", "done"}
  /\ status \in {"running", "ok", "failed"}
  /\ failReason \in {"", "trigger", "exclusive", "exception"}
  /\ run \in 1..MaxRuns
  /\ idx \in 1..(Len(reposList) + 1)
  /\ tries \in 0..CommitTries
  /\ retries \in 0..PrRetries
  /\ count \in 0..PrRetries
  /\ slept \in 0..(CommitTries * CommitDelay + PrRetries * PrDelay)
  /\ probe.org \in {"none", "ok", "404", "error"}
  /\ probe.user \in {"none", "ok", "error"}
  /\ probe.list \in {"none", "ok", "error"}
  /\ wasBranchThereAlready \in BOOLEAN
  /\ commitUrl \in {Undefined, "commit-url"}
  /\ pullRequestUrl = Undefined
  /\ ignoredRepositories \subseteq RepoNames
  /\ calls \subseteq {"getCommit", "getRepo", "orgsGet", "usersGet",
                      "listForOrg", "listForUser", "getContent", "getRef",
                      "createRef", "createCommit", "createPr"}
  /\ \A r \in RepoNames :
       summary[r] \in {"none", "nochange", "pr", "pushed", "nopr", "failed"}
  /\ \A r \in Spokes : syncRef[r] = NoRef \/ syncRef[r] >= DefaultHeadOid

Init ==
  /\ triggerEventName \in {"push", "workflow_dispatch", "schedule"}
  /\ repoNameManual \in
       IF triggerEventName = "workflow_dispatch" THEN {"", "s1"} ELSE {""}
  /\ patternsToIgnore \in Globs
  /\ patternsToInclude \in Globs
  /\ patternsToRemove \in Globs
  /\ changedPaths \in {{}, {"f2"}, Paths}
  /\ localFile = LocalFiles
  /\ remoteFile \in [Spokes -> RemoteLayouts]
  /\ \E prior \in SUBSET Spokes :
       /\ syncRef = [r \in Spokes |->
                      IF r \in prior THEN PriorHeadOid ELSE NoRef]
       /\ syncCommits = [r \in Spokes |->
                          IF r \in prior THEN <<PriorCommit>> ELSE <<>>]
  /\ run = 1
  /\ pc = "start"
  /\ status = "running"
  /\ failReason = ""
  /\ filesToReplicate = UndefinedList
  /\ filesToRemove = UndefinedList
  /\ reposList = <<>>
  /\ probe = NoProbe
  /\ ignoredRepositories = {}
  /\ idx = 1
  /\ fileChanges = NoChanges
  /\ wasBranchThereAlready = FALSE
  /\ headOid = NoRef
  /\ tries = 0
  /\ retries = 0
  /\ count = 0
  /\ slept = 0
  /\ commitUrl = Undefined
  /\ pullRequestUrl = Undefined
  /\ calls = {}
  /\ trace = NoTrace
  /\ summary = [r \in RepoNames |-> "none"]

\* A start that does not compare the include and the remove patterns.
StartUnchecked ==
  /\ pc = "start"
  /\ IF triggerEventName \notin {"push", "workflow_dispatch"}
     THEN /\ status' = "failed"
          /\ failReason' = "trigger"
          /\ pc' = "done"
     ELSE /\ pc' = "select"
          /\ UNCHANGED <<status, failReason>>
  /\ UNCHANGED <<inputs, remote, run, files, repos, idx, perRepo, calls,
                 trace, summary>>

\* part_000:16-58: the trigger and the mutually exclusive patterns.  The
\* token is taken to be supplied (line 30) and the payload of a push to
\* carry a commit (line 50); no request is sent before line 68.
Start ==
  /\ pc = "start"
  /\ IF triggerEventName \notin {"push", "workflow_dispatch"}
     THEN /\ status' = "failed"
          /\ failReason' = "trigger"
          /\ pc' = "done"
     ELSE IF patternsToRemove # "" /\ patternsToInclude # ""
     THEN /\ status' = "failed"
          /\ failReason' = "exclusive"
          /\ pc' = "done"
     ELSE /\ pc' = "select"
          /\ UNCHANGED <<status, failReason>>
  /\ UNCHANGED <<inputs, remote, run, files, repos, idx, perRepo, calls,
                 trace, summary>>

\* A selection that goes on to the repositories with nothing selected.
SelectFilesNoReturn ==
  /\ pc = "select"
  /\ IF patternsToRemove = ""
     THEN \E lookup \in {"ok", "error"} :
            LET isPush == triggerEventName = "push"
                found == getListOfFilesToReplicate(changedPaths,
                            patternsToIgnore, patternsToInclude)
            IN  /\ calls' = IF isPush THEN calls \cup {"getCommit"} ELSE calls
                /\ IF isPush /\ lookup = "error"
                   THEN /\ status' = "failed"
                        /\ failReason' = "exception"
                        /\ pc' = "done"
                        /\ UNCHANGED files
                   ELSE /\ filesToReplicate' = found.filesForReplication
                        /\ filesToRemove' = found.filesForRemoval
                        /\ pc' = "repos"
                        /\ UNCHANGED <<status, failReason>>
     ELSE /\ pc' = "repos"
          /\ UNCHANGED <<status, failReason, files, calls>>
  /\ UNCHANGED <<inputs, remote, run, repos, idx, perRepo, trace, summary>>

\* part_000:64-74: the files to replicate and to remove.  With remove
\* patterns the step is omitted and both lists stay undefined.
SelectFiles ==
  /\ pc = "select"
  /\ IF patternsToRemove = ""
     THEN \E lookup \in {"ok", "error"} :
            LET isPush == triggerEventName = "push"
                found == getListOfFilesToReplicate(changedPaths,
                            patternsToIgnore, patternsToInclude)
            IN  /\ calls' = IF isPush THEN calls \cup {"getCommit"} ELSE calls
                /\ IF isPush /\ lookup = "error"
                   THEN /\ status' = "failed"
                        /\ failReason' = "exception"
                        /\ pc' = "done"
                        /\ UNCHANGED files
                   ELSE /\ filesToReplicate' = found.filesForReplication
                        /\ filesToRemove' = found.filesForRemoval
                        /\ IF /\ Len(found.filesForReplication) = 0
                              /\ Len(found.filesForRemoval) = 0
                           THEN /\ status' = "ok"
                                /\ pc' = "done"
                           ELSE /\ pc' = "repos"
                                /\ UNCHANGED status
                        /\ UNCHANGED failReason
     ELSE /\ pc' = "repos"
          /\ UNCHANGED <<status, failReason, files, calls>>
  /\ UNCHANGED <<inputs, remote, run, repos, idx, perRepo, trace, summary>>

\* Descriptors of the repositories of the owner (api-calls.js:86-97).
RepoMeta ==
  [n \in RepoNames |->
     [name |-> n, defaultBranch |-> "main",
      private |-> (n = "s2"), fork |-> FALSE, archived |-> FALSE,
      topics |-> IF n = "s1" THEN {"t"} ELSE {}]]

\* A probe that asks for the user after every error of the organization
\* lookup.
getReposListProbeAnyError(org, user, list) ==
  LET probeUser == org # "ok"
      isUser == probeUser /\ user = "ok"
      resolved == org = "ok" \/ isUser
      listing == IF isUser THEN "listForUser" ELSE "listForOrg"
  IN  [calls |-> {"orgsGet"}
                 \cup (IF probeUser THEN {"usersGet"} ELSE {})
                 \cup (IF resolved THEN {listing} ELSE {}),
       probe |-> [org |-> org,
                  user |-> IF probeUser THEN user ELSE "none",
                  list |-> IF resolved THEN list ELSE "none"],
       ok |-> resolved /\ list = "ok",
       repos |-> IF resolved /\ list = "ok" THEN OwnerRepos ELSE <<>>]

\* getReposList (api-calls.js:42-104): the requests it sends and what it
\* returns, for the answers org, user and list of the three requests.
getReposList(org, user, list) ==
  LET probeUser == org = "404"
      isUser == probeUser /\ user = "ok"
      resolved == org = "ok" \/ isUser
      listing == IF isUser THEN "listForUser" ELSE "listForOrg"
  IN  [calls |-> {"orgsGet"}
                 \cup (IF probeUser THEN {"usersGet"} ELSE {})
                 \cup (IF resolved THEN {listing} ELSE {}),
       probe |-> [org |-> org,
                  user |-> IF probeUser THEN user ELSE "none",
                  list |-> IF resolved THEN list ELSE "none"],
       ok |-> resolved /\ list = "ok",
       repos |-> IF resolved /\ list = "ok" THEN OwnerRepos ELSE <<>>]

\* A lookup that swallows the error of repos.get.
getRepoSwallow(name, answer) ==
  [calls |-> {"getRepo"},
   probe |-> NoProbe,
   ok |-> TRUE,
   repos |-> IF answer = "ok" THEN <<name>> ELSE <<>>]

\* getRepo (api-calls.js:15-40).
getRepo(name, answer) ==
  [calls |-> {"getRepo"},
   probe |-> NoProbe,
   ok |-> answer = "ok",
   repos |-> IF answer = "ok" THEN <<name>> ELSE <<>>]

\* getListOfReposToIgnore / applyIgnoreCriteria of the Repository Selector.
getListOfReposToIgnore(repo, list, criteria) ==
  {n \in {list[i] : i \in 1..Len(list)} :
     \/ n = repo
     \/ n \in criteria.reposToIgnore
     \/ (criteria.topicsToInclude # {}
           /\ RepoMeta[n].topics \cap criteria.topicsToInclude = {})
     \/ RepoMeta[n].archived
     \/ (criteria.excludePrivate /\ RepoMeta[n].private)
     \/ (criteria.excludeForked /\ RepoMeta[n].fork)}

\* The ignore criteria a workflow can configure (part_000:93-96).
IgnoreCriteria ==
  [reposToIgnore : {{}, {"s1"}}, topicsToInclude : {{}, {"t"}},
   excludePrivate : BOOLEAN, excludeForked : BOOLEAN]

\* part_000:82-97: the list of repositories and the ignored ones.
GetRepos ==
  /\ pc = "repos"
  /\ \E org \in {"ok", "404", "error"}, user \in {"ok", "error"},
        answer \in {"ok", "error"}, criteria \in IgnoreCriteria :
       LET single == triggerEventName = "workflow_dispatch"
                       /\ repoNameManual # ""
           got == IF single THEN getRepo(repoNameManual, answer)
                  ELSE getReposList(org, user, answer)
       IN  /\ calls' = calls \cup got.calls
           /\ probe' = got.probe
           /\ IF got.ok
              THEN /\ reposList' = got.repos
                   /\ ignoredRepositories' =
                        getListOfReposToIgnore(Hub, got.repos, criteria)
                   /\ pc' = "loop"
                   /\ UNCHANGED <<status, failReason>>
              ELSE /\ status' = "failed"
                   /\ failReason' = "exception"
                   /\ pc' = "done"
                   /\ UNCHANGED <<reposList, ignoredRepositories>>
  /\ idx' = 1
  /\ UNCHANGED <<inputs, remote, run, files, perRepo, trace, summary>>

\* encodeAdditions and encodeDeletions of ./utils: the entry of the change
\* set that encodes the argument for the destination.
encodeAdditions(arg, dest) == [path |-> arg, destination |-> dest]
encodeDeletions(arg, dest) == [path |-> arg, destination |-> dest]

\* The keys a for...in loop enumerates for a list: the indices, as strings.
IndexKeys == <<"0", "1">>
KeysOf(list) == SubSeq(IndexKeys, 1, Len(list))

\* part_000:123: the comparison that decides whether a path is an addition.
NeedsAddition(r, path) ==
  BufferToString(localFile[path]) # ResponseToString(getFile(r, path))

\* part_000:112-136: the change set of repository r.
ChangeSet(r) ==
  LET differing == SelectSeq(filesToReplicate,
                             LAMBDA path : NeedsAddition(r, path))
      existing == SelectSeq(KeysOf(filesToRemove),
                            LAMBDA path : fileExists(r, path))
  IN  [additions |-> [i \in 1..Len(differing) |->
                        encodeAdditions(filesToReplicate, destination)],
       deletions |-> [i \in 1..Len(existing) |->
                        encodeDeletions(filesToRemove, destination)]]

\* part_000:138: is there anything to commit.
HasChanges(changes) ==
  Len(changes.additions) > 0 \/ Len(changes.deletions) > 0

\* The repository the loop of part_000:102 is at.
Cur == reposList[idx]

\* The locals of one iteration of the loop, before the iteration starts.
\* commitUrl is assigned without a declaration: it outlives the iteration.
ResetLocals ==
  /\ fileChanges' = NoChanges
  /\ wasBranchThereAlready' = FALSE
  /\ headOid' = NoRef
  /\ tries' = 0
  /\ retries' = 0
  /\ count' = 0
  /\ slept' = 0
  /\ pullRequestUrl' = Undefined

\* A loop whose errors reach the outer catch of part_000:191-193.
CatchAndAbort(r, tr) ==
  /\ trace' = tr
  /\ summary' = [summary EXCEPT ![r] = "failed"]
  /\ status' = "failed"
  /\ failReason' = "exception"
  /\ pc' = "done"
  /\ ResetLocals
  /\ UNCHANGED <<idx, commitUrl>>

\* part_000:185-189: an error of the iteration is caught, a warning is
\* written and the loop goes on with the next repository.
CatchAndContinue(r, tr) ==
  /\ trace' = tr
  /\ summary' = [summary EXCEPT ![r] = "failed"]
  /\ idx' = idx + 1
  /\ pc' = "loop"
  /\ ResetLocals
  /\ UNCHANGED <<status, failReason, commitUrl>>

\* part_000:102: the list is exhausted; run() returns without setFailed.
Finish ==
  /\ pc = "loop"
  /\ idx > Len(reposList)
  /\ pc' = "done"
  /\ status' = "ok"
  /\ UNCHANGED <<inputs, remote, run, failReason, files, repos, idx, perRepo,
                 calls, trace, summary>>

\* part_000:105: an ignored repository is passed over.
SkipIgnored ==
  /\ pc = "loop"
  /\ idx <= Len(reposList)
  /\ Cur \in ignoredRepositories
  /\ idx' = idx + 1
  /\ UNCHANGED <<inputs, remote, run, pc, status, failReason, files, repos,
                 perRepo, calls, trace, summary>>

\* part_000:105-138 and 180-183: the diff of one repository.
Diff ==
  /\ pc = "loop"
  /\ idx <= Len(reposList)
  /\ Cur \notin ignoredRepositories
  /\ LET r == Cur IN
     IF filesToReplicate = UndefinedList
     THEN \* for...of over undefined throws a TypeError
          /\ CatchAndContinue(r, [NewTrace(r) EXCEPT !.diff = "typeerror"])
          /\ UNCHANGED calls
     ELSE \E answer \in {"ok", "error"} :
            /\ calls' = calls \cup {"getContent"}
            /\ IF answer = "error"
               THEN CatchAndContinue(r, [NewTrace(r) EXCEPT !.diff = "error"])
               ELSE LET changes == ChangeSet(r) IN
                    IF HasChanges(changes)
                    THEN /\ fileChanges' = changes
                         /\ trace' = [NewTrace(r) EXCEPT !.diff = "changed"]
                         /\ pc' = "branch"
                         /\ UNCHANGED <<idx, wasBranchThereAlready, headOid,
                                        tries, retries, count, slept,
                                        pullRequestUrl, summary, status,
                                        failReason, commitUrl>>
                    ELSE /\ trace' = [NewTrace(r) EXCEPT !.diff = "same"]
                         /\ summary' = [summary EXCEPT ![r] = "nochange"]
                         /\ idx' = idx + 1
                         /\ ResetLocals
                         /\ UNCHANGED <<pc, status, failReason, commitUrl>>
  /\ UNCHANGED <<inputs, remote, run, files, repos>>

\* A read that hands out the head oid read last instead of asking.
getRefOidCached(r, read) == IF read = "ok" THEN headOid ELSE NoRef

\* getRefOidAndRepoId (api-calls.js:274-295) for the sync branch of r.  The
\* read answers "ok", "lag" (the ref is not queryable yet: repository.ref is
\* null and reading its target throws a TypeError) or "error".
getRefOid(r, read) == IF read = "ok" THEN syncRef[r] ELSE NoRef

\* The platform's reply to the createRef mutation: status 422 when the ref
\* exists already, the new ref otherwise, unless the request fails.
createRefReply(exists, answer) ==
  IF answer = "error" THEN "error"
  ELSE IF exists THEN "422"
  ELSE "created"

\* A createBranch that throws on every error of createRef, status 422
\* included.
createBranchStrict(reply) ==
  IF reply = "created" THEN "created" ELSE "error"

\* createBranch (api-calls.js:172-186) for a reply of createRef: "created"
\* is the return value false, "exists" the return value true, "error" a
\* throw.
createBranch(reply) ==
  IF reply = "created" THEN "created"
  ELSE IF reply = "422" THEN "exists"
  ELSE "error"

\* part_000:142-149: the sync branch is created from the head of the
\* default branch, read immediately before.
CreateBranch ==
  /\ pc = "branch"
  /\ LET r == Cur IN
     \E read \in {"ok", "error"}, answer \in {"ok", "error"} :
       LET reply == IF read = "ok"
                    THEN createRefReply(syncRef[r] # NoRef, answer)
                    ELSE "none"
           result == IF read = "ok" THEN createBranch(reply) ELSE "error"
           tr == [trace EXCEPT !.branch = result, !.branchReply = reply]
       IN  /\ calls' = calls \cup {"getRef"}
                         \cup (IF read = "ok" THEN {"createRef"} ELSE {})
           /\ IF result = "error"
              THEN /\ CatchAndContinue(r, tr)
                   /\ UNCHANGED remote
              ELSE /\ headOid' = DefaultHeadOid
                   /\ wasBranchThereAlready' = (result = "exists")
                   /\ syncRef' = IF result = "created"
                                 THEN [syncRef EXCEPT ![r] = DefaultHeadOid]
                                 ELSE syncRef
                   /\ trace' = tr
                   /\ pc' = "commit"
                   /\ tries' = CommitTries
                   /\ UNCHANGED <<remoteFile, syncCommits, status, failReason,
                                  idx, fileChanges, retries, count, slept,
                                  commitUrl, pullRequestUrl, summary>>
  /\ UNCHANGED <<inputs, run, files, repos>>

\* A pass that tries again after every null response, however many
\* attempts were made.
commitPassUnbounded(read, answer, triesLeft) ==
  IF read # "ok" THEN "error"
  ELSE IF answer = "url" THEN "url"
  ELSE IF answer = "null" THEN "retry"
  ELSE "error"

\* A pass that takes every error for a null response and tries again.
commitPassRetryAll(read, answer, triesLeft) ==
  IF read = "ok" /\ answer = "url" THEN "url"
  ELSE IF triesLeft - 1 > 0 THEN "retry"
  ELSE "exhausted"

\* One pass of the loop of commitFiles (api-calls.js:228-267): what the
\* pass ends with.  "url": the commit URL is returned; "retry": the loop
\* goes on; "exhausted": the loop ends and the function returns undefined;
\* "error": the function throws.
commitPass(read, answer, triesLeft) ==
  IF read # "ok" THEN "error"
  ELSE IF answer = "url" THEN "url"
  ELSE IF answer = "null"
       THEN (IF triesLeft - 1 > 0 THEN "retry" ELSE "exhausted")
  ELSE "error"

\* part_000:154-155 with one pass of the loop of commitFiles.
CommitAttempt ==
  /\ pc = "commit"
  /\ tries > 0
  /\ LET r == Cur IN
     \E read \in {"ok", "lag", "error"}, answer \in {"url", "null", "error"} :
       LET result == commitPass(read, answer, tries)
           expectedHeadOid == getRefOid(r, read)
           accepted == expectedHeadOid = syncRef[r]
           tr == [trace EXCEPT
                    !.commitReply = IF read = "ok" THEN answer
                                    ELSE IF read = "lag" THEN "lag"
                                    ELSE "unreadable",
                    !.expected = IF read = "ok" THEN expectedHeadOid ELSE @]
       IN  /\ read = "lag" => ~wasBranchThereAlready
           \* the platform commits only on the head it was told to expect
           /\ (read = "ok" /\ answer = "url") => accepted
           /\ calls' = calls \cup {"getRef"}
                         \cup (IF read = "ok" THEN {"createCommit"} ELSE {})
           /\ CASE result = "error" ->
                     /\ CatchAndContinue(r, [tr EXCEPT !.commit = "error"])
                     /\ UNCHANGED remote
                [] result = "retry" ->
                     /\ tries' = tries - 1
                     /\ slept' = slept + CommitDelay
                     /\ headOid' = expectedHeadOid
                     /\ trace' = tr
                     /\ UNCHANGED <<remote, status, failReason, idx, pc,
                                    fileChanges, wasBranchThereAlready,
                                    retries, count, commitUrl, pullRequestUrl,
                                    summary>>
                [] result = "exhausted" ->
                     /\ tries' = tries - 1
                     /\ slept' = 0
                     /\ headOid' = expectedHeadOid
                     /\ commitUrl' = Undefined
                     /\ trace' = [tr EXCEPT !.commit = "exhausted"]
                     /\ pc' = "pr"
                     /\ retries' = PrRetries
                     /\ UNCHANGED <<remote, status, failReason, idx,
                                    fileChanges, wasBranchThereAlready,
                                    count, pullRequestUrl, summary>>
                [] result = "url" ->
                     /\ headOid' = expectedHeadOid
                     /\ slept' = 0
                     /\ syncCommits' = [syncCommits EXCEPT ![r] =
                                          Append(@, fileChanges)]
                     /\ syncRef' = [syncRef EXCEPT ![r] = @ + 1]
                     /\ commitUrl' = "commit-url"
                     /\ trace' = [tr EXCEPT !.commit = "url"]
                     /\ pc' = "pr"
                     /\ retries' = PrRetries
                     /\ UNCHANGED <<remoteFile, status, failReason, idx,
                                    fileChanges, wasBranchThereAlready, tries,
                                    count, pullRequestUrl, summary>>
  /\ UNCHANGED <<inputs, run, files, repos>>

\* A pass that tries again after every error.
prPassRetryAll(answer, retriesLeft) ==
  IF answer = "url" THEN "url"
  ELSE IF retriesLeft > 0 THEN "retry"
  ELSE "exhausted"

\* One pass of the loop of createPr (api-calls.js:132-148) for the answer
\* to the mutation and the value of retries after the test of line 132:
\* "url", "retry", "exhausted" (the loop ends, the function returns
\* undefined) or "error" (the function throws).
prPass(answer, retriesLeft) ==
  IF answer = "url" THEN "url"
  ELSE IF answer = "was submitted too quickly"
       THEN (IF retriesLeft > 0 THEN "retry" ELSE "exhausted")
  ELSE "error"

\* part_000:172-178: the line that closes a repository after the PR step.
Summary(url, wasThere) ==
  IF url # Undefined THEN "pr"
  ELSE IF wasThere THEN "pushed"
  ELSE "nopr"

\* part_000:165-168: how an error thrown by createPr is reported: an info
\* line when the branch was there already, nothing otherwise.
PrErrorReport(wasThere) == IF wasThere THEN "info" ELSE "none"

\* api-calls.js:132-136: the test of the loop of createPr and the wait
\* that precedes the attempt.
PrWait ==
  /\ pc = "pr"
  /\ retries > 0
  /\ retries' = retries - 1
  /\ count' = count + 1
  /\ slept' = slept + PrDelay
  /\ pc' = "prcall"
  /\ UNCHANGED <<inputs, remote, run, status, failReason, files, repos, idx,
                 fileChanges, wasBranchThereAlready, headOid, tries,
                 commitUrl, pullRequestUrl, calls, trace, summary>>

\* part_000:162-178 with the attempt of one pass of the loop of createPr
\* (api-calls.js:137-147) and what follows from its answer.
PrAttempt ==
  /\ pc = "prcall"
  /\ LET r == Cur IN
     \E answer \in {"url", "was submitted too quickly", "error"} :
       LET result == prPass(answer, retries)
           url == IF result = "url" THEN "pr-url" ELSE Undefined
       IN  /\ calls' = calls \cup {"createPr"}
           /\ IF result = "retry"
              THEN /\ trace' = [trace EXCEPT !.prReply = answer]
                   /\ pc' = "pr"
                   /\ UNCHANGED <<idx, fileChanges, wasBranchThereAlready,
                                  headOid, tries, retries, count, slept,
                                  pullRequestUrl, summary>>
              ELSE /\ trace' = [trace EXCEPT
                        !.pr = result,
                        !.prReply = answer,
                        !.prReport = IF result = "error"
                                     THEN PrErrorReport(wasBranchThereAlready)
                                     ELSE "none"]
                   /\ summary' = [summary EXCEPT ![r] =
                                     Summary(url, wasBranchThereAlready)]
                   /\ idx' = idx + 1
                   /\ pc' = "loop"
                   /\ ResetLocals
  /\ UNCHANGED <<inputs, remote, run, status, failReason, files, repos,
                 commitUrl>>

\* line 196: the workflow is executed again for the same trigger.
Rerun ==
  /\ pc = "done"
  /\ run < MaxRuns
  /\ run' = run + 1
  /\ pc' = "start"
  /\ status' = "running"
  /\ failReason' = ""
  /\ filesToReplicate' = UndefinedList
  /\ filesToRemove' = UndefinedList
  /\ reposList' = <<>>
  /\ probe' = NoProbe
  /\ ignoredRepositories' = {}
  /\ idx' = 1
  /\ ResetLocals
  /\ commitUrl' = Undefined
  /\ calls' = {}
  /\ trace' = NoTrace
  /\ summary' = [r \in RepoNames |-> "none"]
  /\ UNCHANGED <<inputs, remote>>

Next ==
  \/ Start
  \/ SelectFiles
  \/ GetRepos
  \/ Finish
  \/ SkipIgnored
  \/ Diff
  \/ CreateBranch
  \/ CommitAttempt
  \/ PrWait
  \/ PrAttempt

Spec == Init /\ [][Next]_vars

\* The workflow executed again for the same trigger, starting with spokes
\* that have no sync branch yet.
InitRerun == Init /\ \A r \in Spokes : syncRef[r] = NoRef
NextRerun == Next \/ Rerun
SpecRerun == InitRerun /\ [][NextRerun]_vars

\* run() is one sequence of awaited requests: every request is answered
\* and the step that waits for the answer is taken.
SpecLive == Init /\ [][Next]_vars /\ WF_vars(Next)

\* Somebody else pushes a commit onto the sync branch of the repository
\* while run() is between the creation of the branch and its commit.
OtherCommit == [additions |-> << [path |-> <<"f2">>, destination |-> ""] >>,
                deletions |-> <<>>]
OtherPush ==
  /\ pc = "commit"
  /\ syncRef[Cur] # NoRef
  /\ syncRef[Cur] < MaxHeadOid
  /\ syncRef' = [syncRef EXCEPT ![Cur] = @ + 1]
  /\ syncCommits' = [syncCommits EXCEPT ![Cur] = Append(@, OtherCommit)]
  /\ UNCHANGED <<inputs, remoteFile, run, pc, status, failReason, files,
                 repos, idx, perRepo, calls, trace, summary>>

\* A manual dispatch for the repository s1, with sync branches that move
\* under the run.
InitConcurrent ==
  /\ Init
  /\ triggerEventName = "workflow_dispatch"
  /\ repoNameManual = "s1"
  /\ patternsToRemove = ""
NextConcurrent == Next \/ OtherPush
SpecConcurrent == InitConcurrent /\ [][NextConcurrent]_vars

\* The loop of part_000:102-190 on its own, entered with a file selection
\* as getListOfFilesToReplicate may return it (part_000:68-70): two lists
\* with no path in common, not both empty (line 72).  A spoke may also hold
\* a file whose name is a list index.
IndexNamedLayout == [p \in Paths \cup {IndexKeys[1]} |->
                       IF p \in Paths THEN Missing ELSE "x"]
InitDiff ==
  /\ triggerEventName = "push"
  /\ repoNameManual = ""
  /\ patternsToIgnore = ""
  /\ patternsToInclude = ""
  /\ patternsToRemove = ""
  /\ changedPaths = Paths
  /\ localFile = LocalFiles
  /\ remoteFile \in [Spokes -> RemoteLayouts \cup {IndexNamedLayout}]
  /\ syncRef = [r \in Spokes |-> NoRef]
  /\ syncCommits = [r \in Spokes |-> <<>>]
  /\ run = 1
  /\ pc = "loop"
  /\ status = "running"
  /\ failReason = ""
  /\ \E toReplicate \in SUBSET Paths, toRemove \in SUBSET Paths :
       /\ toReplicate \cap toRemove = {}
       /\ toReplicate \cup toRemove # {}
       /\ filesToReplicate = ToList(toReplicate)
       /\ filesToRemove = ToList(toRemove)
  /\ reposList = OwnerRepos
  /\ probe = [org |-> "ok", user |-> "none", list |-> "ok"]
  /\ ignoredRepositories = {Hub}
  /\ idx = 1
  /\ fileChanges = NoChanges
  /\ wasBranchThereAlready = FALSE
  /\ headOid = NoRef
  /\ tries = 0
  /\ retries = 0
  /\ count = 0
  /\ slept = 0
  /\ commitUrl = Undefined
  /\ pullRequestUrl = Undefined
  /\ calls = {"getCommit", "orgsGet", "listForOrg"}
  /\ trace = NoTrace
  /\ summary = [r \in RepoNames |-> "none"]
NextDiff ==
  \/ Finish
  \/ SkipIgnored
  \/ Diff
  \/ CreateBranch
  \/ CommitAttempt
  \/ PrWait
  \/ PrAttempt
SpecDiff == InitDiff /\ [][NextDiff]_vars

(***************************************************************************)
(* Properties.                                                             *)
(***************************************************************************)
\* The requests that look up or list the repositories of the owner.
ListingCalls == {"orgsGet", "usersGet", "listForOrg", "listForUser"}
\* The requests made for one repository.
RepoCalls == {"getContent", "getRef", "createRef", "createCommit", "createPr"}

\* The trace records an error raised by the diff, the branch or the commit
\* step.
StepFailed ==
  \/ trace.diff \in {"error", "typeerror"}
  \/ trace.branch = "error"
  \/ trace.commit = "error"

\* The locals of an iteration hold nothing of an earlier iteration.
LocalsFresh ==
  /\ fileChanges = NoChanges
  /\ wasBranchThereAlready = FALSE
  /\ headOid = NoRef
  /\ tries = 0
  /\ retries = 0
  /\ count = 0
  /\ slept = 0
  /\ pullRequestUrl = Undefined

\* C1: failure isolation.  An error raised while diffing, creating the
\* branch or committing for a repository is caught and reported as the
\* warning of that repository, the run is not marked as failed because of
\* it, every selected repository before the position of the loop has been
\* closed with a summary, the loop ends only behind the last repository,
\* and every iteration starts from fresh locals, whatever happened before.
C1_FailureIsolation ==
  /\ (trace.repo \in Spokes /\ StepFailed) =>
        /\ summary[trace.repo] = "failed"
        /\ pc \in {"loop", "done"}
  /\ (\E r \in Spokes : summary[r] = "failed") => status # "failed"
  /\ \A j \in 1..Len(reposList) :
        (j < idx /\ reposList[j] \notin ignoredRepositories)
           => summary[reposList[j]] # "none"
  /\ (pc = "done" /\ status = "ok") => idx = Len(reposList) + 1
  /\ pc = "loop" => LocalsFresh

\* C1 witness: the first spoke failed, the second one got its PR, and the
\* run ended without being marked as failed.
C1_Witness ==
  /\ pc = "done"
  /\ status = "ok"
  /\ summary["s1"] = "failed"
  /\ summary["s2"] = "pr"

\* The remote copy of every path to replicate is byte-identical to the
\* local file, and no path to remove exists remotely.
RemoteIdentical(r) ==
  /\ filesToReplicate # UndefinedList
  /\ \A i \in 1..Len(filesToReplicate) :
        remoteFile[r][filesToReplicate[i]] = localFile[filesToReplicate[i]]
  /\ \A i \in 1..Len(filesToRemove) :
        remoteFile[r][filesToRemove[i]] = Missing

\* C2: for a repository whose remote content is byte-identical for every
\* path to replicate and where no path to remove exists remotely, the diff
\* yields an empty change set and no branch, commit or PR call is made.
C2_IdenticalContentNoMutation ==
  \A r \in Spokes :
    (trace.repo = r /\ trace.diff \in {"same", "changed"}
       /\ RemoteIdentical(r))
    => /\ trace.diff = "same"
       /\ fileChanges = NoChanges
       /\ trace.branch = "none"
       /\ trace.commit = "none"
       /\ trace.pr = "none"

\* C3: whenever the remove patterns and the include patterns are both
\* non-empty, the run ends in the failed state with a configuration error
\* and no request at all has been sent.
C3_ExclusivePatternsFailFast ==
  (patternsToRemove # "" /\ patternsToInclude # "")
    => /\ calls = {}
       /\ pc \in {"start", "done"}
       /\ pc = "done" =>
            /\ status = "failed"
            /\ failReason \in {"trigger", "exclusive"}

\* C3 witness: a run for a push with both patterns has ended with the
\* error of the mutually exclusive fields.
C3_Witness ==
  /\ patternsToRemove # ""
  /\ patternsToInclude # ""
  /\ triggerEventName = "push"
  /\ pc = "done"
  /\ failReason = "exclusive"

\* The selection of the Pattern Matcher for the inputs is empty in both
\* sets: no changed path is selected by the configured patterns.
NothingSelected ==
  LET sel == Select(changedPaths, patternsToInclude, patternsToIgnore,
                    patternsToRemove)
  IN  Len(sel.filesForReplication) = 0 /\ Len(sel.filesForRemoval) = 0

\* A run that got its inputs and its changed paths: the trigger is valid,
\* the patterns are not mutually exclusive, the commit lookup succeeded.
Selected ==
  /\ pc \notin {"start", "select"}
  /\ status # "failed"

\* C4 as stated: whenever no changed path is selected by the configured
\* patterns (include, exclude or remove), the run terminates successfully
\* and never looks up or lists the repositories.
C4_EmptySelectionEndsRun ==
  (Selected /\ NothingSelected)
    => /\ pc = "done" => status = "ok"
       /\ calls \cap (ListingCalls \cup {"getRepo"}) = {}

\* C4 amended: the same when no remove patterns are configured.
C4_EmptySelectionEndsRunNoRemove ==
  (Selected /\ NothingSelected /\ patternsToRemove = "")
    => /\ pc = "done"
       /\ status = "ok"
       /\ filesToReplicate = <<>>
       /\ filesToRemove = <<>>
       /\ calls \cap (ListingCalls \cup {"getRepo"}) = {}

\* C4 witness: a push changed f2 only, the include pattern selects f1, and
\* the run has ended successfully after the commit lookup alone.
C4_Witness ==
  /\ patternsToRemove = ""
  /\ patternsToInclude = "f1"
  /\ changedPaths = {"f2"}
  /\ triggerEventName = "push"
  /\ pc = "done"
  /\ status = "ok"
  /\ calls = {"getCommit"}

\* C5: idempotence over two runs.  In the second run for the same trigger
\* a sync branch is created only where the first run left none (elsewhere
\* createBranch reports that it exists), and no sync branch holds the same
\* change set twice.
C5_SecondRunIdempotent ==
  \A r \in Spokes :
    /\ (run = 2 /\ trace.repo = r /\ trace.branch = "created")
          => Len(syncCommits[r]) <= 1
    /\ \A i, j \in 1..Len(syncCommits[r]) :
          i # j => syncCommits[r][i] # syncCommits[r][j]

\* C6: in a removal-only run (remove patterns, no include patterns), for a
\* spoke whose default branch holds a file matching the remove pattern, the
\* diff yields a change set with exactly one deletion and no addition, and
\* the branch step follows.
C6_RemovalOnlyRun ==
  \A r \in Spokes :
    (/\ patternsToRemove # ""
     /\ patternsToInclude = ""
     /\ trace.repo = r
     /\ trace.diff \notin {"none", "error"}
     /\ Cardinality({p \in Paths : Matches(patternsToRemove, p)
                                      /\ remoteFile[r][p] # Missing}) = 1)
    => /\ trace.diff = "changed"
       /\ pc = "branch" =>
            /\ Len(fileChanges.deletions) = 1
            /\ Len(fileChanges.additions) = 0

\* The positions of the paths to replicate whose local content differs from
\* the content on the default branch of r (a missing file differs).
Differing(r) ==
  {i \in 1..Len(filesToReplicate) :
      remoteFile[r][filesToReplicate[i]] # localFile[filesToReplicate[i]]}

\* C7: the additions of the change set hold exactly one entry per path
\* whose local content differs from the remote content, and none for a
\* path whose content is identical.
C7_OneAdditionPerDifferingPath ==
  \A r \in Spokes :
    (trace.repo = r /\ filesToReplicate # UndefinedList)
    => /\ trace.diff = "same" => Differing(r) = {}
       /\ (trace.diff = "changed" /\ pc = "branch") =>
             Len(fileChanges.additions) = Cardinality(Differing(r))

\* C8: branch creation outcome.  On the reply 422 createBranch reports that
\* the branch exists, the commit step runs, and the head oid it gives to the
\* commit mutation is the current head of that existing branch; on any
\* other failure no commit and no PR step is made for the repository, the
\* repository alone is closed as failed and the run is not.
C8_BranchOutcome ==
  /\ trace.branchReply = "422" =>
       /\ trace.branch = "exists"
       /\ pc \in {"commit", "pr", "prcall"} => wasBranchThereAlready
       /\ trace.commit = "none" => (pc = "commit" /\ tries > 0)
       /\ trace.expected # NoRef =>
            trace.expected = IF trace.commit = "url"
                             THEN syncRef[trace.repo] - 1
                             ELSE syncRef[trace.repo]
  /\ (trace.branchReply = "error" \/ trace.branch = "error") =>
       /\ trace.branch = "error"
       /\ trace.commit = "none"
       /\ trace.pr = "none"
       /\ trace.expected = NoRef
       /\ summary[trace.repo] = "failed"
       /\ pc \in {"loop", "done"}
       /\ status # "failed"

\* C8 witness: the sync branch was there, and the commit was made on its
\* head, which is not the head of the default branch.
C8_Witness ==
  /\ trace.branchReply = "422"
  /\ trace.commit = "url"
  /\ trace.expected = PriorHeadOid
  /\ trace.expected # DefaultHeadOid

\* C9: when createPr fails with an error that is not retried, after the
\* branch and the commit succeeded, the failure is logged as information if
\* the branch existed already and surfaced as a warning for the repository
\* if the branch was newly created; the run continues in both cases.
C9_PrFailureReport ==
  (trace.repo \in Spokes /\ trace.commit = "url" /\ trace.pr = "error")
  => /\ trace.branch = "exists" =>
          /\ trace.prReport = "info"
          /\ summary[trace.repo] # "failed"
     /\ trace.branch = "created" =>
          \/ trace.prReport = "warning"
          \/ summary[trace.repo] = "failed"
     /\ pc \in {"loop", "done"}
     /\ status # "failed"

\* C10: single-repository mode.  When a manual dispatch names a target,
\* the repositories are never listed and the list holds exactly the named
\* repository; when its lookup fails the run ends failed and no request is
\* made for any repository.
C10_SingleRepositoryMode ==
  (triggerEventName = "workflow_dispatch" /\ repoNameManual # "")
  => /\ calls \cap ListingCalls = {}
     /\ pc \in {"loop", "branch", "commit", "pr", "prcall"} =>
          /\ "getRepo" \in calls
          /\ reposList = <<repoNameManual>>
     /\ ("getRepo" \in calls /\ pc = "done" /\ status = "ok") =>
          reposList = <<repoNameManual>>
     /\ ("getRepo" \in calls /\ reposList = <<>>) =>
          /\ pc = "done"
          /\ status = "failed"
          /\ calls \cap RepoCalls = {}
          /\ \A r \in RepoNames : summary[r] = "none"

\* C10 witness: the lookup of the named repository failed and the run has
\* ended in the failed state.
C10_Witness ==
  /\ triggerEventName = "workflow_dispatch"
  /\ repoNameManual = "s1"
  /\ "getRepo" \in calls
  /\ reposList = <<>>
  /\ pc = "done"
  /\ status = "failed"

\* C11: per-repository ordering of the mutations.  The commit step starts
\* only after createBranch has completed (created or exists), the PR step
\* starts only after the commit step has returned a commit URL, and no PR
\* is requested for a branch on which this run made no commit.
C11_MutationOrder ==
  /\ (pc = "commit" \/ trace.commit # "none") =>
        trace.branch \in {"created", "exists"}
  /\ (pc \in {"pr", "prcall"} \/ trace.pr # "none") =>
        /\ trace.commit = "url"
        /\ commitUrl = "commit-url"

\* C12: exhausting the commit retries is a failure of the repository.
\* When all attempts of the commit step got a null response, the repository
\* is closed as failed and no PR step is made for it.
C12_ExhaustionFailsRepository ==
  trace.commit = "exhausted" =>
    /\ pc \in {"loop", "done"}
    /\ summary[trace.repo] = "failed"
    /\ trace.pr = "none"
    /\ trace.prReply = "none"

\* C13: commit retry policy.  While the commit step runs, fewer than
\* CommitTries attempts have been made, each of them got a null response
\* and was followed by the delay; an error of the read or of the mutation
\* ends the step at once with an error; the first non-null response ends
\* the step and its commit URL is returned.
C13_CommitRetryPolicy ==
  /\ pc = "commit" =>
       /\ tries \in 1..CommitTries
       /\ slept = CommitDelay * (CommitTries - tries)
       /\ trace.commit = "none"
       /\ trace.commitReply =
            IF tries < CommitTries THEN "null" ELSE "none"
  /\ trace.commitReply \in {"lag", "unreadable", "error"} =>
       /\ trace.commit = "error"
       /\ summary[trace.repo] = "failed"
       /\ pc \in {"loop", "done"}
  /\ trace.commitReply = "url" =>
       /\ trace.commit = "url"
       /\ commitUrl = "commit-url"
  /\ trace.commit = "error" =>
       trace.commitReply \in {"lag", "unreadable", "error"}
  /\ trace.commit = "url" => trace.commitReply = "url"
  /\ trace.commit = "exhausted" => trace.commitReply = "null"

\* C13 witness: nine attempts got a null response and the tenth one
\* returned the commit URL.
C13_Witness ==
  /\ pc = "pr"
  /\ trace.commit = "url"
  /\ commitUrl = "commit-url"
  /\ tries = 1

\* C14: PR retry policy.  Every attempt is preceded by the wait, at most
\* PrRetries attempts are made, a further pass is made only after the error
\* 'was submitted too quickly', any other error ends the step at once with
\* an error and the first success returns the URL of the PR.
C14_PrRetryPolicy ==
  /\ pc = "pr" =>
       /\ retries \in 1..PrRetries
       /\ count = PrRetries - retries
       /\ slept = PrDelay * count
       /\ trace.pr = "none"
       /\ trace.prReply =
            IF count > 0 THEN "was submitted too quickly" ELSE "none"
  /\ pc = "prcall" =>
       /\ count \in 1..PrRetries
       /\ count = PrRetries - retries
       /\ slept = PrDelay * count
       /\ trace.pr = "none"
       /\ trace.prReply =
            IF count > 1 THEN "was submitted too quickly" ELSE "none"
  /\ trace.prReply = "error" => trace.pr = "error"
  /\ trace.prReply = "url" =>
       /\ trace.pr = "url"
       /\ summary[trace.repo] = "pr"
  /\ trace.pr = "error" => trace.prReply = "error"
  /\ trace.pr = "url" => trace.prReply = "url"
  /\ trace.pr = "exhausted" =>
       /\ trace.prReply = "was submitted too quickly"
       /\ summary[trace.repo] # "pr"
  /\ trace.pr # "none" => pc \in {"loop", "done"}

\* C14 witness: the fifth attempt is about to be sent, after five waits
\* and four errors 'was submitted too quickly'.
C14_Witness ==
  /\ pc = "prcall"
  /\ count = PrRetries
  /\ slept = PrRetries * PrDelay
  /\ trace.prReply = "was submitted too quickly"

\* C15: tolerance of the consistency lag after the creation of the branch.
\* When the head of the freshly created sync branch is not queryable yet,
\* or the commit mutation answers null, before the last attempt, the commit
\* step goes on with a further attempt and the repository is not failed.
C15_LagTolerated ==
  (/\ trace.branch = "created"
   /\ trace.commitReply \in {"lag", "null"}
   /\ trace.commit # "exhausted")
  => /\ trace.commit = "none"
     /\ pc = "commit"
     /\ tries > 0
     /\ summary[trace.repo] # "failed"

\* The positions of the paths to remove that exist on the default branch
\* of r.
ExistingToRemove(r) ==
  {i \in 1..Len(filesToRemove) : remoteFile[r][filesToRemove[i]] # Missing}

\* C16: the deletions of the change set hold one entry for every path to
\* remove that exists on the default branch of the repository, and none
\* for a path that does not exist there.
C16_DeletionsForExistingPaths ==
  \A r \in Spokes :
    (trace.repo = r /\ filesToRemove # UndefinedList)
    => /\ trace.diff = "same" => ExistingToRemove(r) = {}
       /\ (trace.diff = "changed" /\ pc = "branch") =>
             Len(fileChanges.deletions) = Cardinality(ExistingToRemove(r))

\* C17: read-then-act head oid.  The expected head oid given to a commit
\* mutation is the head the sync branch has when the attempt is made,
\* whatever was read for the creation of the branch or by an earlier
\* attempt, and a branch is created at the head of the default branch read
\* for that creation.
C17_ReadThenAct ==
  [][/\ (/\ pc = "commit"
          /\ (pc' # pc \/ tries' # tries)
          /\ trace'.commitReply \in {"url", "null", "error"})
        => /\ trace'.expected = syncRef[Cur]
           /\ trace'.commit # "error" => headOid' = syncRef[Cur]
     /\ (pc = "branch" /\ trace'.branch = "created")
        => /\ headOid' = DefaultHeadOid
           /\ syncRef'[Cur] = headOid']_vars

\* C17 witness: after a null response the commit was made on a head that
\* is neither the head of the default branch nor the head the sync branch
\* had when the run started.
C17_Witness ==
  /\ trace.commit = "url"
  /\ trace.branch = "exists"
  /\ tries < CommitTries
  /\ trace.expected = PriorHeadOid + 1

\* C18: account-kind probe.  The organization lookup comes first, the user
\* lookup is made only after the organization lookup answered 404, any
\* other error of the organization lookup and a failing user lookup end
\* the run as failed with no repository page requested, and the
\* repositories are listed for the organization iff its lookup succeeded,
\* for the user iff the user lookup was made and succeeded.
C18_AccountKindProbe ==
  /\ calls \cap ListingCalls # {} => "orgsGet" \in calls
  /\ "orgsGet" \in calls <=> probe.org # "none"
  /\ "usersGet" \in calls <=> probe.user # "none"
  /\ probe.user # "none" <=> probe.org = "404"
  /\ (probe.org = "error" \/ probe.user = "error") =>
       /\ pc = "done"
       /\ status = "failed"
       /\ calls \cap {"listForOrg", "listForUser"} = {}
       /\ probe.list = "none"
       /\ reposList = <<>>
       /\ calls \cap RepoCalls = {}
  /\ "listForOrg" \in calls <=> probe.org = "ok"
  /\ "listForUser" \in calls <=> (probe.org = "404" /\ probe.user = "ok")
  /\ probe.list = "ok" => reposList = OwnerRepos
  /\ probe.list = "error" => (pc = "done" /\ status = "failed")

\* C18 witness: the owner is no organization (404) but a user, and the
\* repositories were listed with the user listing.
C18_Witness ==
  /\ probe.org = "404"
  /\ probe.user = "ok"
  /\ calls \cap ListingCalls = {"orgsGet", "usersGet", "listForUser"}
  /\ reposList = OwnerRepos
  /\ pc = "loop"

\* The attempts made for the repository the loop is at stay below their
\* limits: no createRef was sent before the branch step, fewer than
\* CommitTries commit attempts before a commit attempt, at most PrRetries
\* PR attempts with the one that is about to be sent.
AttemptBounds ==
  /\ pc = "branch" => (trace.branchReply = "none" /\ trace.branch = "none")
  /\ pc = "commit" => (CommitTries - tries) \in 0..(CommitTries - 1)
  /\ pc = "pr" => count \in 0..(PrRetries - 1)
  /\ pc = "prcall" => count \in 1..PrRetries

\* run() has returned and every repository of the list was skipped or
\* closed with an outcome.
Terminated ==
  /\ pc = "done"
  /\ status \in {"ok", "failed"}
  /\ \A j \in 1..Len(reposList) :
        \/ reposList[j] \in ignoredRepositories
        \/ summary[reposList[j]] \in
              {"nochange", "pr", "pushed", "nopr", "failed"}

\* C19: termination.  Whatever the platform answers, the attempts of every
\* repository stay within their limits (one createRef, CommitTries commit
\* attempts, PrRetries PR attempts) and the run ends with every repository
\* of the list skipped or closed with an outcome.
C19_Termination == []AttemptBounds /\ <>Terminated

\* C19 witness: the run has ended after a repository used up all commit
\* attempts and all PR attempts.
C19_Witness ==
  /\ Terminated
  /\ trace.commit = "exhausted"
  /\ trace.pr = "exhausted"
  /\ summary[trace.repo] \in {"pushed", "nopr"}
====
